---------------------------- MODULE Spec2Model ----------------------------
(***************************************************************************)
(* The five Fusion 360 example scripts of examples/.  Each script is one   *)
(* function run(context): a try body that is a straight line of calls into *)
(* the host application, and a bare except handler.  The model runs one    *)
(* script against a host whose answers (whether a call raises, in which    *)
(* order profiles and faces are enumerated, whether the edges of a face    *)
(* are projected into a sketch placed on it) are chosen nondeterministic-  *)
(* ally.                                                                   *)
(*                                                                         *)
(* Lengths are integers in tenths of a millimetre (2.5 mm is 25); the      *)
(* z component of a unit normal is in thousandths (1.0 is 1000).           *)
(***************************************************************************)
EXTENDS Integers, Sequences, FiniteSets, TLC

VARIABLES script, pc, status, exc, calls, dialogs, host, loc

vars == <<script, pc, status, exc, calls, dialogs, host, loc>>

Tenths(mm) == mm * 10

Abs(x) == IF x < 0 THEN -x ELSE x

(***************************************************************************)
(* The scripts.  A statement is the host call of one source line (with the *)
(* property reads and value constructions that feed it); "doc" is what the *)
(* docstring or the inline comment of that line says about the circle.     *)
(***************************************************************************)

Scripts ==
    {"box", "rectangle_with_hole", "rectangle_with_hole_and_fillet",
     "face_with_eyes_and_mouth", "circle_with_hole_and_fillet"}

Prologue(first) ==
    << [line |-> first,     op |-> "GetApplication"],
       [line |-> first + 1, op |-> "GetUserInterface"],
       [line |-> first + 2, op |-> "AddDocument"],
       [line |-> first + 3, op |-> "GetRootComponent"] >>

\* box.py with the fillets.add(filletInput) call left out.
run_box_without_fillet ==
    Prologue(24) \o
    << [line |-> 35, op |-> "AddSketchXY"],
       [line |-> 40, op |-> "AddRectangle", on |-> "sketch",
        x1 |-> Tenths(-10), y1 |-> Tenths(-5), x2 |-> Tenths(10), y2 |-> Tenths(5)],
       [line |-> 48, op |-> "AddCircle", on |-> "sketch", x |-> 0, y |-> 0, r |-> Tenths(3),
        doc |-> [kind |-> "radius", value |-> Tenths(3)]],
       [line |-> 54, op |-> "ResolveProfile"],
       [line |-> 58, op |-> "CreateExtrudeInput", operation |-> "NewBody",
        from |-> "prof"],
       [line |-> 62, op |-> "SetDistance", distance |-> Tenths(5)],
       [line |-> 65, op |-> "AddExtrude"],
       [line |-> 69, op |-> "GetBody"],
       [line |-> 78, op |-> "CollectEdges"],
       [line |-> 93, op |-> "MessageBox",
        text |-> "Rectangle with hole and fillets created successfully"] >>

run_box ==
    Prologue(24) \o
    << [line |-> 35, op |-> "AddSketchXY"],
       [line |-> 40, op |-> "AddRectangle", on |-> "sketch",
        x1 |-> Tenths(-10), y1 |-> Tenths(-5), x2 |-> Tenths(10), y2 |-> Tenths(5)],
       [line |-> 48, op |-> "AddCircle", on |-> "sketch", x |-> 0, y |-> 0, r |-> Tenths(3),
        doc |-> [kind |-> "radius", value |-> Tenths(3)]],
       [line |-> 54, op |-> "ResolveProfile"],
       [line |-> 58, op |-> "CreateExtrudeInput", operation |-> "NewBody",
        from |-> "prof"],
       [line |-> 62, op |-> "SetDistance", distance |-> Tenths(5)],
       [line |-> 65, op |-> "AddExtrude"],
       [line |-> 69, op |-> "GetBody"],
       [line |-> 78, op |-> "CollectEdges"],
       [line |-> 88, op |-> "CreateFilletInput", radius |-> Tenths(1),
        tangentChain |-> TRUE, assigned |-> {}],
       [line |-> 91, op |-> "AddFillet"],
       [line |-> 93, op |-> "MessageBox",
        text |-> "Rectangle with hole and fillets created successfully"] >>

run_rectangle_with_hole ==
    Prologue(25) \o
    << [line |-> 36, op |-> "AddSketchXY"],
       [line |-> 41, op |-> "AddCircle", on |-> "sketch", x |-> 0, y |-> 0, r |-> Tenths(25),
        doc |-> [kind |-> "diameter", value |-> Tenths(50)]],
       [line |-> 45, op |-> "ResolveProfile"],
       [line |-> 48, op |-> "CreateExtrudeInput", operation |-> "NewBody",
        from |-> "prof"],
       [line |-> 51, op |-> "SetDistance", distance |-> Tenths(5)],
       [line |-> 53, op |-> "AddExtrude"],
       [line |-> 57, op |-> "GetBody"],
       [line |-> 60, op |-> "FindTopFace"],
       [line |-> 67, op |-> "AddSketchOnFace"],
       [line |-> 72, op |-> "AddCircle", on |-> "topSketch",
        x |-> Tenths(-10), y |-> Tenths(10), r |-> 25,
        doc |-> [kind |-> "diameter", value |-> Tenths(5)]],
       [line |-> 76, op |-> "AddCircle", on |-> "topSketch",
        x |-> Tenths(10), y |-> Tenths(10), r |-> 25,
        doc |-> [kind |-> "diameter", value |-> Tenths(5)]],
       [line |-> 80, op |-> "AddCircle", on |-> "topSketch",
        x |-> 0, y |-> Tenths(-10), r |-> 75,
        doc |-> [kind |-> "diameter", value |-> Tenths(15)]],
       [line |-> 88, op |-> "CollectProfiles"],
       [line |-> 92, op |-> "CreateExtrudeInput", operation |-> "Cut",
        from |-> "profileCollection"],
       [line |-> 96, op |-> "SetDistance", distance |-> Tenths(3)],
       [line |-> 99, op |-> "AddExtrude"],
       [line |-> 101, op |-> "MessageBox", text |-> "Smiley face created successfully"] >>

run_rectangle_with_hole_and_fillet ==
    LET width      == Tenths(20)
        height     == Tenths(10)
        halfWidth  == width \div 2
        halfHeight == height \div 2
    IN  Prologue(24) \o
        << [line |-> 35, op |-> "AddSketchXY"],
           [line |-> 45, op |-> "AddRectangle", on |-> "sketch",
            x1 |-> -halfWidth, y1 |-> -halfHeight, x2 |-> halfWidth, y2 |-> halfHeight],
           [line |-> 53, op |-> "AddCircle", on |-> "sketch", x |-> 0, y |-> 0, r |-> Tenths(3),
            doc |-> [kind |-> "radius", value |-> Tenths(3)]],
           [line |-> 57, op |-> "ResolveProfile"],
           [line |-> 60, op |-> "CreateExtrudeInput", operation |-> "NewBody",
        from |-> "prof"],
           [line |-> 64, op |-> "SetDistance", distance |-> Tenths(5)],
           [line |-> 67, op |-> "AddExtrude"],
           [line |-> 71, op |-> "GetBody"],
           [line |-> 74, op |-> "CollectEdges"],
           [line |-> 80, op |-> "CreateFilletInput", radius |-> Tenths(1), tangentChain |-> FALSE,
        assigned |-> {"isG2 = False", "isRollingBallCorner = True"}],
           [line |-> 85, op |-> "AddFillet"],
           [line |-> 87, op |-> "MessageBox",
            text |-> "Rectangle with hole and fillets created successfully"] >>

run_face_with_eyes_and_mouth ==
    Prologue(25) \o
    << [line |-> 36, op |-> "AddSketchXY"],
       [line |-> 41, op |-> "AddCircle", on |-> "sketch", x |-> 0, y |-> 0, r |-> Tenths(50),
        doc |-> [kind |-> "diameter", value |-> Tenths(50)]],
       [line |-> 46, op |-> "AddCircle", on |-> "sketch",
        x |-> Tenths(-15), y |-> Tenths(15), r |-> 25,
        doc |-> [kind |-> "diameter", value |-> Tenths(5)]],
       [line |-> 47, op |-> "AddCircle", on |-> "sketch",
        x |-> Tenths(15), y |-> Tenths(15), r |-> 25,
        doc |-> [kind |-> "diameter", value |-> Tenths(5)]],
       [line |-> 51, op |-> "AddCircle", on |-> "sketch",
        x |-> 0, y |-> Tenths(-10), r |-> Tenths(10),
        doc |-> [kind |-> "diameter", value |-> Tenths(20)]],
       [line |-> 55, op |-> "ResolveProfile"],
       [line |-> 58, op |-> "CreateExtrudeInput", operation |-> "NewBody",
        from |-> "prof"],
       [line |-> 62, op |-> "SetDistance", distance |-> Tenths(10)],
       [line |-> 65, op |-> "AddExtrude"],
       [line |-> 69, op |-> "GetBody"],
       [line |-> 72, op |-> "CollectEdges"],
       [line |-> 78, op |-> "CreateFilletInput", radius |-> 15, tangentChain |-> FALSE,
        assigned |-> {"isG2 = False", "isRollingBallCorner = True"}],
       [line |-> 83, op |-> "AddFillet"],
       [line |-> 85, op |-> "MessageBox", text |-> "3D Smiley Face created successfully"] >>

run_circle_with_hole_and_fillet ==
    Prologue(24) \o
    << [line |-> 35, op |-> "AddSketchXY"],
       [line |-> 40, op |-> "AddCircle", on |-> "sketch", x |-> 0, y |-> 0, r |-> Tenths(25),
        doc |-> [kind |-> "diameter", value |-> Tenths(50)]],
       [line |-> 43, op |-> "AddCircle", on |-> "sketch", x |-> 0, y |-> 0, r |-> Tenths(20),
        doc |-> [kind |-> "radius", value |-> Tenths(20)]],
       [line |-> 47, op |-> "ResolveProfile"],
       [line |-> 50, op |-> "CreateExtrudeInput", operation |-> "NewBody",
        from |-> "prof"],
       [line |-> 54, op |-> "SetDistance", distance |-> Tenths(10)],
       [line |-> 57, op |-> "AddExtrude"],
       [line |-> 61, op |-> "GetBody"],
       [line |-> 64, op |-> "CollectEdges"],
       [line |-> 70, op |-> "CreateFilletInput", radius |-> Tenths(2), tangentChain |-> FALSE,
        assigned |-> {"isG2 = False", "isRollingBallCorner = True"}],
       [line |-> 75, op |-> "AddFillet"],
       [line |-> 77, op |-> "MessageBox",
        text |-> "Circle with hole and fillets created successfully"] >>

Program(s) ==
    CASE s = "box"                            -> run_box
      [] s = "rectangle_with_hole"            -> run_rectangle_with_hole
      [] s = "rectangle_with_hole_and_fillet" -> run_rectangle_with_hole_and_fillet
      [] s = "face_with_eyes_and_mouth"       -> run_face_with_eyes_and_mouth
      [] s = "circle_with_hole_and_fillet"    -> run_circle_with_hole_and_fillet


(***************************************************************************)
(* The host's geometry kernel, as far as the scripts observe it.           *)
(***************************************************************************)

Sq(x) == x * x

\* Curve c lies strictly inside the closed curve d.
Inside(c, d) ==
    CASE c.kind = "circle" /\ d.kind = "circle" ->
            /\ c.r < d.r
            /\ Sq(c.x - d.x) + Sq(c.y - d.y) < Sq(d.r - c.r)
      [] c.kind = "circle" /\ d.kind = "rect" ->
            /\ d.x1 < c.x - c.r /\ c.x + c.r < d.x2
            /\ d.y1 < c.y - c.r /\ c.y + c.r < d.y2
      [] c.kind = "rect" /\ d.kind = "rect" ->
            /\ d.x1 < c.x1 /\ c.x2 < d.x2
            /\ d.y1 < c.y1 /\ c.y2 < d.y2
      [] OTHER ->
            \A px \in {c.x1, c.x2} : \A py \in {c.y1, c.y2} :
                Sq(px - d.x) + Sq(py - d.y) < Sq(d.r)

CurvesOf(h, sk) == {i \in 1..Len(h.curves) : h.curves[i].sketch = sk}

\* sketch.profiles: one closed region per closed curve, bounded by the curve
\* (loop) and with the curves lying directly inside it as holes.
Regions(h, sk) ==
    LET ids == CurvesOf(h, sk)
        in(i, j) == Inside(h.curves[i], h.curves[j])
    IN  { [loop  |-> i,
           holes |-> {j \in ids \ {i} :
                        /\ in(j, i)
                        /\ ~ \E k \in ids \ {i, j} : in(j, k) /\ in(k, i)}]
          : i \in ids }

\* The orders in which the host may enumerate a collection.
Orders(S) ==
    {o \in [1..Cardinality(S) -> S] : \A x \in S : \E i \in DOMAIN o : o[i] = x}

NoProfile == [loop |-> 0, holes |-> {}]

\* body.faces of an extruded body: the two planar caps and the lateral face.
Faces == {"top", "bottom", "side"}

\* face.geometry: a Plane for a cap; the lateral face of a body whose outer
\* loop is a circle is a Cylinder, which has no attribute "normal".
HasNormal(h, b, f) ==
    f \in {"top", "bottom"} \/ h.curves[h.bodies[b].profile.loop].kind = "rect"

NormalZ(f) ==
    CASE f = "top" -> 1000 [] f = "bottom" -> -1000 [] OTHER -> 0

\* body.edges: each loop of the profile bounds the body at the bottom and at
\* the top (one record stands for the edges of that loop at that level).
EdgesOf(h, b) ==
    LET p == h.bodies[b].profile
    IN  {[loop |-> l, level |-> v] : l \in {p.loop} \cup p.holes, v \in {"bottom", "top"}}

(***************************************************************************)
(* run(context): the state after "ui = None".                              *)
(***************************************************************************)

NoExc == [stmt |-> 0, line |-> 0, op |-> "", cause |-> "none"]

NoInput == [profiles |-> <<>>, operation |-> "", distance |-> 0]

NoFillet == [edges |-> {}, radius |-> 0, tangentChain |-> FALSE, assigned |-> {}]

Init ==
    /\ script \in Scripts
    /\ pc = 1
    /\ status = "running"
    /\ exc = NoExc
    /\ calls = <<>>
    /\ dialogs = <<>>
    /\ host = [documents |-> 0, sketches |-> <<>>, curves |-> <<>>,
               bodies |-> <<>>, features |-> <<>>]
    /\ loc = [ui |-> "None", sketch |-> 0, profiles |-> <<>>, prof |-> NoProfile,
              extInput |-> NoInput, body |-> 0, topFace |-> "None",
              topSketch |-> 0, profileCollection |-> <<>>, edges |-> {}, filletInput |-> NoFillet]

Stmt == Program(script)[pc]

At(op) ==
    /\ status = "running"
    /\ pc \in 1..Len(Program(script))
    /\ Stmt.op = op

\* The statement completed: control moves to the next one; after the last
\* statement of the try body run(context) returns.
Completes(op) ==
    /\ calls' = Append(calls, [stmt |-> pc, op |-> op, ok |-> TRUE, cause |-> "none"])
    /\ pc' = pc + 1
    /\ status' = IF pc = Len(Program(script)) THEN "returned" ELSE "running"
    /\ UNCHANGED <<script, exc>>

\* The statement raised (cause "host": the host call failed; cause "script":
\* the script's own expression raised): control moves to the except clause.
Raises(op, cause) ==
    /\ calls' = Append(calls, [stmt |-> pc, op |-> op, ok |-> FALSE, cause |-> cause])
    /\ exc' = [stmt |-> pc, line |-> Stmt.line, op |-> op, cause |-> cause]
    /\ status' = "except"
    /\ UNCHANGED <<script, pc, dialogs, host, loc>>

(***************************************************************************)
(* The statements of the try body.  Every one of them calls the host, and  *)
(* the host may raise instead of answering.                                *)
(***************************************************************************)

\* app = adsk.core.Application.get()
GetApplication ==
    /\ At("GetApplication")
    /\ \/ Completes("GetApplication") /\ UNCHANGED <<dialogs, host, loc>>
       \/ Raises("GetApplication", "host")

\* ui = app.userInterface
GetUserInterface ==
    /\ At("GetUserInterface")
    /\ \/ /\ Completes("GetUserInterface")
          /\ loc' = [loc EXCEPT !.ui = "ui"]
          /\ UNCHANGED <<dialogs, host>>
       \/ Raises("GetUserInterface", "host")

\* doc = app.documents.add(adsk.core.DocumentTypes.FusionDesignDocumentType)
AddDocument ==
    /\ At("AddDocument")
    /\ \/ /\ Completes("AddDocument")
          /\ host' = [host EXCEPT !.documents = @ + 1]
          /\ UNCHANGED <<dialogs, loc>>
       \/ Raises("AddDocument", "host")

\* design = app.activeProduct; rootComp = design.rootComponent
GetRootComponent ==
    /\ At("GetRootComponent")
    /\ \/ Completes("GetRootComponent") /\ UNCHANGED <<dialogs, host, loc>>
       \/ Raises("GetRootComponent", "host")

\* sketch = sketches.add(rootComp.xYConstructionPlane)
AddSketchXY ==
    /\ At("AddSketchXY")
    /\ \/ /\ Completes("AddSketchXY")
          /\ host' = [host EXCEPT !.sketches = Append(@, [plane |-> "XY"])]
          /\ loc' = [loc EXCEPT !.sketch = Len(host.sketches) + 1]
          /\ UNCHANGED dialogs
       \/ Raises("AddSketchXY", "host")

\* sketch.sketchCurves.sketchLines.addTwoPointRectangle(p1, p2)
AddRectangle ==
    /\ At("AddRectangle")
    /\ \/ /\ Completes("AddRectangle")
          /\ host' = [host EXCEPT !.curves =
                        Append(@, [sketch |-> loc[Stmt.on], kind |-> "rect",
                                   x1 |-> Stmt.x1, y1 |-> Stmt.y1,
                                   x2 |-> Stmt.x2, y2 |-> Stmt.y2,
                                   stmt |-> pc, projected |-> FALSE])]
          /\ UNCHANGED <<dialogs, loc>>
       \/ Raises("AddRectangle", "host")

\* sketchCircles.addByCenterRadius(adsk.core.Point3D.create(x, y, 0), r)
AddCircle ==
    /\ At("AddCircle")
    /\ \/ /\ Completes("AddCircle")
          /\ host' = [host EXCEPT !.curves =
                        Append(@, [sketch |-> loc[Stmt.on], kind |-> "circle",
                                   x |-> Stmt.x, y |-> Stmt.y, r |-> Stmt.r,
                                   stmt |-> pc, projected |-> FALSE])]
          /\ UNCHANGED <<dialogs, loc>>
       \/ Raises("AddCircle", "host")

\* prof = sketch.profiles.item(0)
ResolveProfile ==
    /\ At("ResolveProfile")
    /\ \/ \E o \in Orders(Regions(host, loc.sketch)) :
            IF Len(o) = 0
            THEN Raises("ResolveProfile", "host")
            ELSE /\ Completes("ResolveProfile")
                 /\ loc' = [loc EXCEPT !.profiles = o, !.prof = o[1]]
                 /\ UNCHANGED <<dialogs, host>>
       \/ Raises("ResolveProfile", "host")

\* extInput = rootComp.features.extrudeFeatures.createInput(profile, operation)
CreateExtrudeInput ==
    /\ At("CreateExtrudeInput")
    /\ \/ /\ Completes("CreateExtrudeInput")
          /\ loc' = [loc EXCEPT !.extInput =
                        [profiles  |-> IF Stmt.from = "prof"
                                       THEN <<loc.prof>> ELSE loc.profileCollection,
                         operation |-> Stmt.operation,
                         distance  |-> 0]]
          /\ UNCHANGED <<dialogs, host>>
       \/ Raises("CreateExtrudeInput", "host")

\* extInput.setDistanceExtent(False, adsk.core.ValueInput.createByReal(d))
SetDistance ==
    /\ At("SetDistance")
    /\ \/ /\ Completes("SetDistance")
          /\ loc' = [loc EXCEPT !.extInput.distance = Stmt.distance]
          /\ UNCHANGED <<dialogs, host>>
       \/ Raises("SetDistance", "host")

\* extrudes.add(extInput): the feature is recorded as given; a NewBody
\* extrusion creates a body, whose faces the host keeps in some order.
AddExtrude ==
    /\ At("AddExtrude")
    /\ \/ /\ Completes("AddExtrude")
          /\ \E o \in Orders(Faces) :
                host' = [host EXCEPT
                    !.features = Append(@, [kind      |-> "extrude",
                                            operation |-> loc.extInput.operation,
                                            profiles  |-> loc.extInput.profiles,
                                            distance  |-> loc.extInput.distance,
                                            stmt      |-> pc]),
                    !.bodies = IF loc.extInput.operation = "NewBody"
                               THEN Append(@, [profile |-> loc.extInput.profiles[1],
                                               height  |-> loc.extInput.distance,
                                               faces   |-> o])
                               ELSE @]
          /\ UNCHANGED <<dialogs, loc>>
       \/ Raises("AddExtrude", "host")

\* body = ext.bodies.item(0)   (box.py, rectangle_with_hole.py:
\* body = rootComp.bRepBodies.item(0))
GetBody ==
    /\ At("GetBody")
    /\ \/ IF Len(host.bodies) = 0
          THEN Raises("GetBody", "host")
          ELSE /\ Completes("GetBody")
               /\ loc' = [loc EXCEPT !.body = 1]
               /\ UNCHANGED <<dialogs, host>>
       \/ Raises("GetBody", "host")

\* edges = ObjectCollection.create(); for edge in body.edges: edges.add(edge)
CollectEdges ==
    /\ At("CollectEdges")
    /\ \/ /\ Completes("CollectEdges")
          /\ loc' = [loc EXCEPT !.edges = EdgesOf(host, loc.body)]
          /\ UNCHANGED <<dialogs, host>>
       \/ Raises("CollectEdges", "host")

\* filletInput = fillets.createInput()
\* filletInput.addConstantRadiusEdgeSet(edges, createByReal(r), isTangentChain)
\* filletInput.isG2 = False; filletInput.isRollingBallCorner = True
\* (the two assignments are not in box.py)
CreateFilletInput ==
    /\ At("CreateFilletInput")
    /\ \/ /\ Completes("CreateFilletInput")
          /\ loc' = [loc EXCEPT !.filletInput =
                        [edges |-> loc.edges, radius |-> Stmt.radius,
                         tangentChain |-> Stmt.tangentChain,
                         assigned |-> Stmt.assigned]]
          /\ UNCHANGED <<dialogs, host>>
       \/ Raises("CreateFilletInput", "host")

\* fillets.add(filletInput)
AddFillet ==
    /\ At("AddFillet")
    /\ \/ /\ Completes("AddFillet")
          /\ host' = [host EXCEPT !.features =
                        Append(@, [kind   |-> "fillet",
                                   edges  |-> loc.filletInput.edges,
                                   radius |-> loc.filletInput.radius,
                                   stmt   |-> pc])]
          /\ UNCHANGED <<dialogs, loc>>
       \/ Raises("AddFillet", "host")

\* 0.001, in thousandths
Tolerance == 1

\* topFace = None
\* for face in body.faces:
\*     if abs(face.geometry.normal.z - 1) < 0.001: topFace = face; break
\* Reading .normal of a geometry that has none raises AttributeError.
RECURSIVE FaceLoop(_, _, _)
FaceLoop(h, b, faces) ==
    IF faces = <<>>
    THEN [raised |-> FALSE, topFace |-> "None"]
    ELSE LET face == Head(faces)
         IN  IF ~HasNormal(h, b, face)
             THEN [raised |-> TRUE, topFace |-> "None"]
             ELSE IF Abs(NormalZ(face) - 1000) < Tolerance
                  THEN [raised |-> FALSE, topFace |-> face]
                  ELSE FaceLoop(h, b, Tail(faces))

FindTopFace ==
    /\ At("FindTopFace")
    /\ \/ LET r == FaceLoop(host, loc.body, host.bodies[loc.body].faces)
          IN  IF r.raised
              THEN Raises("FindTopFace", "script")
              ELSE /\ Completes("FindTopFace")
                   /\ loc' = [loc EXCEPT !.topFace = r.topFace]
                   /\ UNCHANGED <<dialogs, host>>
       \/ Raises("FindTopFace", "host")

SeqOf(S) == CHOOSE o \in Orders(S) : TRUE

\* The edges of the face a sketch is placed on, as the host projects them
\* into the sketch when it is set to do so.
Projected(h, b, sk) ==
    LET p     == h.bodies[b].profile
        loops == SeqOf({p.loop} \cup p.holes)
    IN  [i \in 1..Len(loops) |->
            [h.curves[loops[i]] EXCEPT !.sketch = sk, !.projected = TRUE]]

\* topSketch = sketches.add(topFace)
AddSketchOnFace ==
    /\ At("AddSketchOnFace")
    /\ \/ IF loc.topFace = "None"
          THEN Raises("AddSketchOnFace", "script")
          ELSE /\ Completes("AddSketchOnFace")
               /\ \E project \in BOOLEAN :
                    LET sk == Len(host.sketches) + 1
                    IN  host' = [host EXCEPT
                            !.sketches = Append(@, [plane |-> loc.topFace]),
                            !.curves = IF project
                                       THEN @ \o Projected(host, loc.body, sk)
                                       ELSE @]
               /\ loc' = [loc EXCEPT !.topSketch = Len(host.sketches) + 1]
               /\ UNCHANGED dialogs
       \/ Raises("AddSketchOnFace", "host")

\* profileCollection = ObjectCollection.create()
\* for i in range(topProfiles.count): profileCollection.add(topProfiles.item(i))
RECURSIVE ProfileLoop(_, _, _)
ProfileLoop(topProfiles, i, profileCollection) ==
    IF i > Len(topProfiles)
    THEN profileCollection
    ELSE ProfileLoop(topProfiles, i + 1, Append(profileCollection, topProfiles[i]))

CollectProfiles ==
    /\ At("CollectProfiles")
    /\ \/ /\ Completes("CollectProfiles")
          /\ \E topProfiles \in Orders(Regions(host, loc.topSketch)) :
                loc' = [loc EXCEPT !.profiles = topProfiles,
                                   !.profileCollection = ProfileLoop(topProfiles, 1, <<>>)]
          /\ UNCHANGED <<dialogs, host>>
       \/ Raises("CollectProfiles", "host")

\* ui.messageBox('... created successfully'), the last statement of the try body
MessageBox ==
    /\ At("MessageBox")
    /\ \/ /\ Completes("MessageBox")
          /\ dialogs' = Append(dialogs, [kind |-> "info", text |-> Stmt.text,
                                         trace |-> NoExc])
          /\ UNCHANGED <<host, loc>>
       \/ Raises("MessageBox", "host")

\* traceback.format_exc(): the text names the statement that raised.
format_exc(e) == [stmt |-> e.stmt, line |-> e.line, op |-> e.op, cause |-> e.cause]

\* The handler without its "if ui:" guard: with ui still None the call of
\* messageBox on None raises inside the handler.
ExceptHandlerUnguarded ==
    /\ status = "except"
    /\ IF loc.ui # "None"
       THEN \/ /\ dialogs' = Append(dialogs, [kind |-> "Failed", text |-> "Failed:",
                                              trace |-> format_exc(exc)])
               /\ calls' = Append(calls, [stmt |-> 0, op |-> "FailedMessageBox",
                                          ok |-> TRUE, cause |-> "none"])
               /\ status' = "returned"
            \/ /\ dialogs' = dialogs
               /\ calls' = Append(calls, [stmt |-> 0, op |-> "FailedMessageBox",
                                          ok |-> FALSE, cause |-> "host"])
               /\ status' = "propagated"
       ELSE /\ status' = "propagated"
            /\ UNCHANGED <<dialogs, calls>>
    /\ UNCHANGED <<script, pc, exc, host, loc>>

\* The handler closing the document it had opened before it reports.
ExceptHandlerClosesDocument ==
    /\ status = "except"
    /\ IF loc.ui # "None"
       THEN \/ /\ dialogs' = Append(dialogs, [kind |-> "Failed", text |-> "Failed:",
                                              trace |-> format_exc(exc)])
               /\ calls' = Append(calls, [stmt |-> 0, op |-> "FailedMessageBox",
                                          ok |-> TRUE, cause |-> "none"])
               /\ status' = "returned"
            \/ /\ dialogs' = dialogs
               /\ calls' = Append(calls, [stmt |-> 0, op |-> "FailedMessageBox",
                                          ok |-> FALSE, cause |-> "host"])
               /\ status' = "propagated"
       ELSE /\ status' = "returned"
            /\ UNCHANGED <<dialogs, calls>>
    /\ host' = [documents |-> 0, sketches |-> <<>>, curves |-> <<>>,
                bodies |-> <<>>, features |-> <<>>]
    /\ UNCHANGED <<script, pc, exc, loc>>

\* except:
\*     if ui:
\*         ui.messageBox('Failed:\n{}'.format(traceback.format_exc()))
\* With ui still None nothing is shown and run returns.  messageBox is a host
\* call too: when it raises inside the handler nothing catches it.
ExceptHandler ==
    /\ status = "except"
    /\ IF loc.ui # "None"
       THEN \/ /\ dialogs' = Append(dialogs, [kind |-> "Failed", text |-> "Failed:",
                                              trace |-> format_exc(exc)])
               /\ calls' = Append(calls, [stmt |-> 0, op |-> "FailedMessageBox",
                                          ok |-> TRUE, cause |-> "none"])
               /\ status' = "returned"
            \/ /\ dialogs' = dialogs
               /\ calls' = Append(calls, [stmt |-> 0, op |-> "FailedMessageBox",
                                          ok |-> FALSE, cause |-> "host"])
               /\ status' = "propagated"
       ELSE /\ status' = "returned"
            /\ UNCHANGED <<dialogs, calls>>
    /\ UNCHANGED <<script, pc, exc, host, loc>>

Next ==
    \/ GetApplication
    \/ GetUserInterface
    \/ AddDocument
    \/ GetRootComponent
    \/ AddSketchXY
    \/ AddRectangle
    \/ AddCircle
    \/ ResolveProfile
    \/ CreateExtrudeInput
    \/ SetDistance
    \/ AddExtrude
    \/ GetBody
    \/ FindTopFace
    \/ AddSketchOnFace
    \/ CollectProfiles
    \/ CollectEdges
    \/ CreateFilletInput
    \/ AddFillet
    \/ MessageBox
    \/ ExceptHandler

Spec == Init /\ [][Next]_vars

(***************************************************************************)
(* Vocabulary of the claims.                                               *)
(***************************************************************************)

Finished == status \in {"returned", "propagated"}

Failed == exc.stmt # 0

Succeeded == status = "returned" /\ ~Failed

FailedDialogs == {i \in DOMAIN dialogs : dialogs[i].kind = "Failed"}

HandlerCalls == {i \in DOMAIN calls : calls[i].op = "FailedMessageBox"}

\* ui is bound by the second statement of every script.
UiBound == exc.op \notin {"GetApplication", "GetUserInterface"}

(***************************************************************************)
(* C1 (as stated): whichever statement of run(context) raises, the first   *)
(* two and the final success messageBox included, exactly one "Failed:"    *)
(* dialog carrying the stack trace is shown and run returns without        *)
(* propagating the exception.                                              *)
(***************************************************************************)
C1_AlwaysOneFailedDialog ==
    (Finished /\ Failed) =>
        /\ status = "returned"
        /\ Cardinality(FailedDialogs) = 1
        /\ \A i \in FailedDialogs : dialogs[i].trace = format_exc(exc)

(***************************************************************************)
(* C1 (amended): when Application.get() or app.userInterface raises, ui is *)
(* still None: no dialog is shown, no messageBox is called and run returns *)
(* normally.  When any later statement raises (the success messageBox      *)
(* included) the handler calls messageBox exactly once; if that call       *)
(* answers, exactly one "Failed:" dialog carrying the trace of the failing *)
(* statement is shown and run returns normally; if that call raises, no    *)
(* dialog is shown and the exception propagates to the host.               *)
(***************************************************************************)
C1_FailedDialogWhenUiBound ==
    (Finished /\ Failed) =>
        IF UiBound
        THEN /\ Cardinality(HandlerCalls) = 1
             /\ \A c \in HandlerCalls :
                   IF calls[c].ok
                   THEN /\ status = "returned"
                        /\ Cardinality(FailedDialogs) = 1
                        /\ \A i \in FailedDialogs : dialogs[i].trace = format_exc(exc)
                   ELSE /\ status = "propagated"
                        /\ FailedDialogs = {}
        ELSE /\ status = "returned"
             /\ dialogs = <<>>
             /\ HandlerCalls = {}

\* The final success messageBox raised and the failure was reported.
C1_Witness ==
    /\ status = "returned"
    /\ exc.op = "MessageBox"
    /\ Cardinality(FailedDialogs) = 1
    /\ dialogs[Len(dialogs)].trace.op = "MessageBox"

(***************************************************************************)
(* C2: once the statement at position k has raised, no statement is issued *)
(* again (neither k nor a later one), everything created so far in the     *)
(* host (document, sketches, curves, body, features) stays as it was at    *)
(* the moment of failure, and the only call that may follow is the         *)
(* handler's single messageBox.                                            *)
(***************************************************************************)
C2_AbortWithoutCleanup ==
    [][ /\ (~Failed /\ Failed') =>
              /\ host' = host
              /\ calls' = Append(calls, [stmt |-> exc'.stmt, op |-> exc'.op,
                                         ok |-> FALSE, cause |-> exc'.cause])
        /\ Failed =>
              /\ host' = host
              /\ exc' = exc
              /\ \/ calls' = calls
                 \/ /\ HandlerCalls = {}
                    /\ Len(calls') = Len(calls) + 1
                    /\ SubSeq(calls', 1, Len(calls)) = calls
                    /\ calls'[Len(calls')].op = "FailedMessageBox"
      ]_vars

\* fillets.add raised after the document, the sketch, its curves and the body
\* had been created; the handler ran and run returned.
C2_Witness ==
    /\ status = "returned"
    /\ exc.op = "AddFillet"
    /\ host.documents = 1
    /\ Len(host.sketches) = 1
    /\ Len(host.curves) > 1
    /\ Len(host.bodies) = 1
    /\ Cardinality(HandlerCalls) = 1

(***************************************************************************)
(* The phases of section 4 of the specification.                           *)
(***************************************************************************)
Phase(op) ==
    CASE op = "AddDocument"                                       -> "document"
      [] op \in {"AddSketchXY", "AddSketchOnFace"}                -> "sketch"
      [] op \in {"AddRectangle", "AddCircle"}                     -> "curves"
      [] op \in {"ResolveProfile", "CollectProfiles"}             -> "profile"
      [] op \in {"CreateExtrudeInput", "SetDistance", "AddExtrude"} -> "extrude"
      [] op = "FindTopFace"                                       -> "face"
      [] op = "CollectEdges"                                      -> "edges"
      [] op \in {"CreateFilletInput", "AddFillet"}                -> "fillet"
      [] op \in {"MessageBox", "FailedMessageBox"}                -> "dialog"
      [] OTHER                                                    -> "none"

\* The phases of the calls issued, in order, a run of calls of one phase
\* counted once.
RECURSIVE PhaseTrace(_)
PhaseTrace(cs) ==
    IF cs = <<>>
    THEN <<>>
    ELSE LET rest == PhaseTrace(SubSeq(cs, 1, Len(cs) - 1))
             ph   == Phase(cs[Len(cs)].op)
         IN  IF ph = "none" \/ (rest # <<>> /\ rest[Len(rest)] = ph)
             THEN rest
             ELSE Append(rest, ph)

SpecPhases ==
    <<"document", "sketch", "curves", "profile", "extrude", "edges", "fillet", "dialog">>

CutScriptPhases ==
    <<"document", "sketch", "curves", "profile", "extrude", "face",
      "sketch", "curves", "profile", "extrude", "dialog">>

(***************************************************************************)
(* C3 (as stated): every script, in a run in which no call raises, goes    *)
(* through document, sketch, curves, profile, extrude, edges, fillet,      *)
(* dialog, in this order and each once.                                    *)
(***************************************************************************)
C3_EveryScriptFollowsPhases ==
    Succeeded => PhaseTrace(calls) = SpecPhases

(***************************************************************************)
(* C3 (amended): the four hole-and-fillet scripts go through document,     *)
(* sketch, curves, profile, extrude, edges, fillet, dialog, each once.     *)
(* The smiley-face cut script (rectangle_with_hole/rectangle_with_hole.py) *)
(* collects no edges and makes no fillet: after the first extrusion it     *)
(* looks for the top face and goes through sketch, curves, profile and     *)
(* extrude a second time before the result dialog.                         *)
(***************************************************************************)
C3_PhasesPerScript ==
    Succeeded =>
        PhaseTrace(calls) = IF script = "rectangle_with_hole"
                            THEN CutScriptPhases
                            ELSE SpecPhases

\* A run of the cut script without any failure, the fillet-free one.
C3_Witness ==
    /\ Succeeded
    /\ script = "rectangle_with_hole"
    /\ Len(host.features) = 2
    /\ dialogs # <<>>

(***************************************************************************)
(* C4: every circle that the docstring or the inline comment describes by  *)
(* a diameter D is drawn with radius D/2, and every circle described by a  *)
(* radius is drawn with that radius.                                       *)
(***************************************************************************)
C4_RadiusMatchesDescription ==
    \A i \in DOMAIN host.curves :
        LET c == host.curves[i]
            d == Program(script)[c.stmt].doc
        IN  (c.kind = "circle" /\ ~c.projected) =>
                IF d.kind = "diameter" THEN 2 * c.r = d.value ELSE c.r = d.value

CutFeatures ==
    {i \in DOMAIN host.features :
        host.features[i].kind = "extrude" /\ host.features[i].operation = "Cut"}

(***************************************************************************)
(* C5: the cut extrusion is issued with the signed distance -3 mm, with    *)
(* the Cut operation, and only after the +5 mm NewBody extrusion has       *)
(* created the first body.                                                 *)
(***************************************************************************)
C5_CutDistanceIsNegative ==
    \A i \in CutFeatures :
        /\ host.features[i].distance = Tenths(-3)
        /\ \E j \in 1..(i - 1) :
              /\ host.features[j].kind = "extrude"
              /\ host.features[j].operation = "NewBody"
              /\ host.features[j].distance = Tenths(5)
        /\ Len(host.bodies) = 1

\* The circles the script itself drew in the sketch on the top face.
DrawnOnTop ==
    {i \in CurvesOf(host, loc.topSketch) : ~host.curves[i].projected}

(***************************************************************************)
(* C6: the profiles handed to the cut extrusion are exactly the three      *)
(* drawn circles (left eye, right eye, smile), each once, however many     *)
(* profiles the host reports for the sketch on the top face.               *)
(***************************************************************************)
C6_CutProfilesAreTheThreeCircles ==
    \A i \in CutFeatures :
        LET ps == host.features[i].profiles
        IN  /\ Len(ps) = 3
            /\ Cardinality(DrawnOnTop) = 3
            /\ {ps[k].loop : k \in DOMAIN ps} = DrawnOnTop
            /\ \A k \in DOMAIN ps : ps[k].holes = {}

HoleScripts ==
    {"box", "rectangle_with_hole_and_fillet", "face_with_eyes_and_mouth",
     "circle_with_hole_and_fillet"}

(***************************************************************************)
(* C7: in the four hole-and-fillet scripts the profile passed to the       *)
(* NewBody extrusion is the outer region with the hole(s), never an inner  *)
(* disk, in whatever order the host enumerates the regions of the sketch.  *)
(***************************************************************************)
C7_ExtrudedProfileIsOuterRegion ==
    (script \in HoleScripts /\ loc.extInput.operation = "NewBody") =>
        LET p == loc.extInput.profiles[1]
        IN  /\ p.holes # {}
            /\ p.holes = CurvesOf(host, loc.sketch) \ {p.loop}

(***************************************************************************)
(* C8: in whatever order the host enumerates the top, bottom and side face *)
(* of the extruded body, the face loop does not raise, topFace is not None *)
(* when sketches.add(topFace) is called, and the second sketch is created  *)
(* on the face whose normal has z = 1.                                     *)
(***************************************************************************)
C8_SecondSketchOnTopFace ==
    /\ \A i \in DOMAIN calls :
          (calls[i].op = "FindTopFace" /\ calls[i].cause # "host") => calls[i].ok
    /\ (At("AddSketchOnFace") \/ loc.topSketch # 0) =>
          /\ loc.topFace # "None"
          /\ Abs(NormalZ(loc.topFace) - 1000) < Tolerance
    /\ loc.topSketch # 0 => host.sketches[loc.topSketch].plane = "top"

=============================================================================
